---- MODULE Spec2Model ----
(***************************************************************************)
(* State-machine model of pyrsa's searchlight pipeline                     *)
(* (src/pyrsa/util/searchlight.py) and of the RDM vector/matrix conversion *)
(* helpers (src/pyrsa/util/rdm_utils.py).                                  *)
(*                                                                         *)
(* Coordinates are 0-based as in numpy; TLA+ sequences are 1-based, so     *)
(* element k of a sequence models element k-1 of the python list/array.    *)
(* Euclidean distances are compared through their squares: for integer     *)
(* coordinates and an integer radius  sqrt(d2) < r  iff  d2 < r*r.         *)
(***************************************************************************)
EXTENDS Integers, Sequences, FiniteSets, TLC

\* ------------------------------------------------------------------ bounds
\* largest side of a grid handed to _get_searchlight_neighbors on its own
MaxDim == 3
\* largest searchlight radius
MaxRadius == 3
\* largest number of voxels of an arbitrary (not dense) mask
MaxVox == 4
\* largest value stored in a mask voxel (masks are numeric, 0 = outside)
MaxVal == 2
\* thresholds are the fractions 0/ThrDen .. ThrDen/ThrDen
ThrDen == 4
\* largest side of a fully dense cubic mask
MaxCube == 5
\* largest number of conditions of an RDM handed to the conversion helpers
MaxCond == 3
\* largest number of RDMs in a stack
MaxRdm == 2
\* largest dissimilarity value in a stack
MaxDis == 1
\* number of conversions applied in a row to one stack
MaxOps == 3
\* get_searchlight_rdms is run on up to ChunkThreshold + MaxOver centers
MaxOver == 4
\* and on 1 .. MaxSmall centers
MaxSmall == 3
\* largest distance between the flat indices of two consecutive centers
MaxStride == 1
\* largest number of rows of the RDM collection handed to the evaluator
MaxRows == 4
\* largest n_jobs
MaxJobs == 4

\* ------------------------------------------------------ program constants
\* "if n_centers > 1000"
ChunkThreshold == 1000
\* np.linspace(0, n_centers, 101): 101 cut points, 100 chunks
NChunks == 100

VARIABLES
    \* _get_searchlight_neighbors, one call
    nb_pc, nb_shape, nb_center, nb_radius, nb_x, nb_y, nb_z, nb_result,
    \* get_volume_searchlight, one call
    vs_pc, mask, mask_shape, radius, threshold, centers, i_center,
    good_centers, good_neighbors, out_centers, out_neighbors,
    \* batch_to_vectors / batch_to_matrices, applied in a row to one stack
    cv_pc, cv_hist, cv_ops, cv_ret,
    \* get_searchlight_rdms, one call
    sl_pc, data_2d, sl_centers, sl_neighbors, events, chunked_center, i_chunk,
    rdm, n_writes, sl_rdms,
    \* evaluate_models_searchlight, one call
    ev_pc, sl_rdm, n_jobs, ev_fails, ev_next, ev_running, results, ev_calls,
    ev_order, ev_ret

nbVars == <<nb_pc, nb_shape, nb_center, nb_radius, nb_x, nb_y, nb_z, nb_result>>
vsVars == <<vs_pc, mask, mask_shape, radius, threshold, centers, i_center,
            good_centers, good_neighbors, out_centers, out_neighbors>>
cvVars == <<cv_pc, cv_hist, cv_ops, cv_ret>>
slVars == <<sl_pc, data_2d, sl_centers, sl_neighbors, events, chunked_center,
            i_chunk, rdm, n_writes, sl_rdms>>
evVars == <<ev_pc, sl_rdm, n_jobs, ev_fails, ev_next, ev_running, results,
            ev_calls, ev_order, ev_ret>>
vars == <<nbVars, vsVars, cvVars, slVars, evVars>>

\* ----------------------------------------------------------- pure helpers
Abs(a) == IF a < 0 THEN -a ELSE a

Range(s) == {s[k] : k \in DOMAIN s}

RECURSIVE SumSeq(_)
SumSeq(s) == IF s = <<>> THEN 0 ELSE Head(s) + SumSeq(Tail(s))

\* np.arange(n)
Arange(n) == [k \in 1..n |-> k - 1]

\* the coordinates of a grid of the given shape, as a set
GridSet(shape) ==
    {<<a, b, c>> : a \in 0..(shape[1]-1), b \in 0..(shape[2]-1), c \in 0..(shape[3]-1)}

\* the coordinates of a grid in C (row-major) order: the order of np.nonzero
CGrid(shape) ==
    [k \in 1..(shape[1] * shape[2] * shape[3]) |->
        <<(k-1) \div (shape[2] * shape[3]),
          ((k-1) \div shape[3]) % shape[2],
          (k-1) % shape[3]>>]

\* squared Euclidean distance of two coordinate triples (cdist, squared)
Dist2(p, q) ==
    (p[1]-q[1]) * (p[1]-q[1]) + (p[2]-q[2]) * (p[2]-q[2]) + (p[3]-q[3]) * (p[3]-q[3])

\* ------------------------------------------- _get_searchlight_neighbors
\* x[abs(x - c_x) < radius] for x = np.arange(n)
Prefilter(n, c, r) == SelectSeq(Arange(n), LAMBDA a : Abs(a - c) < r)

\* np.meshgrid(x, y, z) with the default indexing='xy', ravelled and stacked:
\* the rows of data run over y (outermost), then x, then z (innermost)
Meshgrid(x, y, z) ==
    [k \in 1..(Len(x) * Len(y) * Len(z)) |->
        <<x[(((k-1) \div Len(z)) % Len(x)) + 1],
          y[((k-1) \div (Len(z) * Len(x))) + 1],
          z[((k-1) % Len(z)) + 1]>>]

\* faulty variant: the distance test admits the sphere's surface
WithinRadiusInclusive(p, c, r) == Dist2(p, c) <= r * r

\* distance < radius
WithinRadius(p, c, r) == Dist2(p, c) < r * r

\* data[distance < radius]
DistanceFilter(data, c, r) == SelectSeq(data, LAMBDA p : WithinRadius(p, c, r))

\* the whole function: the neighbours of center c, in the order of data
GetSearchlightNeighbors(shape, c, r) ==
    DistanceFilter(Meshgrid(Prefilter(shape[1], c[1], r),
                            Prefilter(shape[2], c[2], r),
                            Prefilter(shape[3], c[3], r)), c, r)

\* --- one call of _get_searchlight_neighbors, in its two stages
NbInit ==
    /\ nb_pc = "start"
    /\ nb_shape \in (1..MaxDim) \X (1..MaxDim) \X (1..MaxDim)
    /\ nb_center \in GridSet(nb_shape)
    /\ nb_radius \in 1..MaxRadius
    /\ nb_x = <<>> /\ nb_y = <<>> /\ nb_z = <<>>
    /\ nb_result = <<>>

NbIdle ==
    /\ nb_pc = "idle"
    /\ nb_shape = <<1, 1, 1>> /\ nb_center = <<0, 0, 0>> /\ nb_radius = 1
    /\ nb_x = <<>> /\ nb_y = <<>> /\ nb_z = <<>>
    /\ nb_result = <<>>

\* lines 32-40: the per-axis bounding-box prefilter
NbPrefilter ==
    /\ nb_pc = "start"
    /\ nb_x' = Prefilter(nb_shape[1], nb_center[1], nb_radius)
    /\ nb_y' = Prefilter(nb_shape[2], nb_center[2], nb_radius)
    /\ nb_z' = Prefilter(nb_shape[3], nb_center[3], nb_radius)
    /\ nb_pc' = "prefiltered"
    /\ UNCHANGED <<nb_shape, nb_center, nb_radius, nb_result>>

\* lines 43-47: grid of candidates, distances, strict distance test
NbDistance ==
    /\ nb_pc = "prefiltered"
    /\ nb_result' = DistanceFilter(Meshgrid(nb_x, nb_y, nb_z), nb_center, nb_radius)
    /\ nb_pc' = "done"
    /\ UNCHANGED <<nb_shape, nb_center, nb_radius, nb_x, nb_y, nb_z>>

\* ----------------------------------------------- get_volume_searchlight
\* faulty variant: the flat index is taken in column-major (Fortran) order
RavelFortranOrder(p, shape) == p[1] + p[2] * shape[1] + p[3] * shape[1] * shape[2]

\* np.ravel_multi_index(p, shape)
RavelMultiIndex(p, shape) == p[1] * shape[2] * shape[3] + p[2] * shape[3] + p[3]

\* list(zip(*np.nonzero(mask)))
Nonzero(m, shape) == SelectSeq(CGrid(shape), LAMBDA p : m[p] # 0)

\* mask[neighbors]
MaskAt(m, nbs) == [k \in DOMAIN nbs |-> m[nbs[k]]]

\* faulty variant: a center is accepted only strictly above the threshold
MeanAbove(m, nbs, thr) == SumSeq(MaskAt(m, nbs)) * ThrDen > thr * Len(nbs)

\* mask[neighbors].mean() >= threshold, for threshold = thr / ThrDen;
\* the mean of an empty selection is nan, and nan >= threshold is False
MeanAtLeast(m, nbs, thr) ==
    /\ Len(nbs) > 0
    /\ SumSeq(MaskAt(m, nbs)) * ThrDen >= thr * Len(nbs)

\* the shapes of the arbitrary masks
SmallShapes ==
    {s \in (1..MaxVox) \X (1..MaxVox) \X (1..MaxVox) : s[1] * s[2] * s[3] <= MaxVox}

VsStart(m, shape, r, thr) ==
    /\ vs_pc = "loop"
    /\ mask = m
    /\ mask_shape = shape
    /\ radius = r
    /\ threshold = thr
    /\ centers = Nonzero(m, shape)
    /\ i_center = 1
    /\ good_centers = <<>>
    /\ good_neighbors = <<>>
    /\ out_centers = <<>>
    /\ out_neighbors = <<>>

\* lines 73-78, for an arbitrary small mask, or a fully dense cube
VsInit ==
    \/ \E shape \in SmallShapes : \E m \in [GridSet(shape) -> 0..MaxVal] :
       \E r \in 1..MaxRadius : \E thr \in 0..ThrDen :
            VsStart(m, shape, r, thr)
    \/ \E side \in 3..MaxCube : \E r \in 1..MaxRadius :
            /\ side >= 2 * r + 1
            /\ VsStart([p \in GridSet(<<side, side, side>>) |-> 1],
                       <<side, side, side>>, r, ThrDen)

VsIdle ==
    /\ vs_pc = "idle"
    /\ mask = [p \in GridSet(<<1, 1, 1>>) |-> 0]
    /\ mask_shape = <<1, 1, 1>>
    /\ radius = 1
    /\ threshold = 0
    /\ centers = <<>>
    /\ i_center = 1
    /\ good_centers = <<>>
    /\ good_neighbors = <<>>
    /\ out_centers = <<>>
    /\ out_neighbors = <<>>

\* lines 80-84: one iteration of the loop over the candidate centers
VsLoopStep ==
    /\ vs_pc = "loop"
    /\ i_center <= Len(centers)
    /\ LET center == centers[i_center]
           neighbors == GetSearchlightNeighbors(mask_shape, center, radius)
       IN  IF MeanAtLeast(mask, neighbors, threshold)
           THEN /\ good_centers' = Append(good_centers, center)
                /\ good_neighbors' = Append(good_neighbors, neighbors)
           ELSE UNCHANGED <<good_centers, good_neighbors>>
    /\ i_center' = i_center + 1
    /\ UNCHANGED <<vs_pc, mask, mask_shape, radius, threshold, centers,
                   out_centers, out_neighbors>>

\* lines 86-95: the length assertion, then the conversion to flat indices.
\* With no accepted center good_centers is np.array([]), of shape (0,), and
\* np.ravel_multi_index(good_centers.T, mask.shape) raises ValueError
\* ("parameter multi_index must be a sequence of length 3").
VsFinish ==
    /\ vs_pc = "loop"
    /\ i_center > Len(centers)
    /\ IF Len(good_centers) # Len(good_neighbors)
       THEN /\ vs_pc' = "assert_failed"
            /\ UNCHANGED <<out_centers, out_neighbors>>
       ELSE IF good_centers = <<>>
       THEN /\ vs_pc' = "raised"
            /\ UNCHANGED <<out_centers, out_neighbors>>
       ELSE /\ vs_pc' = "done"
            /\ out_centers' =
                 [k \in DOMAIN good_centers |-> RavelMultiIndex(good_centers[k], mask_shape)]
            /\ out_neighbors' =
                 [k \in DOMAIN good_neighbors |->
                    [j \in DOMAIN good_neighbors[k] |->
                        RavelMultiIndex(good_neighbors[k][j], mask_shape)]]
    /\ UNCHANGED <<mask, mask_shape, radius, threshold, centers, i_center,
                   good_centers, good_neighbors>>

\* ------------------------------------------------------------ rdm_utils
\* A stack of RDMs is [ndim, shape, data]: ndim = 2 with shape <<n_rdm, L>> and
\* data a sequence of n_rdm vectors, or ndim = 3 with shape <<n_rdm, n, n>>
\* and data a sequence of n_rdm matrices (sequences of rows).
Stack2(k, L, rows) == [ndim |-> 2, shape |-> <<k, L>>, data |-> rows]
Stack3(k, n, mats) == [ndim |-> 3, shape |-> <<k, n, n>>, data |-> mats]

RECURSIVE SqrtUp(_, _)
SqrtUp(m, d) == IF d * d >= m THEN d ELSE SqrtUp(m, d + 1)

\* int(np.ceil(np.sqrt(m))) for an integer m >= 0
CeilSqrt(m) == SqrtUp(m, 0)

\* int(np.round(np.sqrt(m))): sqrt(m) is never half way between two integers
RoundSqrt(m) ==
    LET d == CeilSqrt(m)
    IN  IF d > 0 /\ 4 * m < (2 * d - 1) * (2 * d - 1) THEN d - 1 ELSE d

\* faulty variant: the size is recovered by rounding to the nearest integer
GetNRounded(x) == RoundSqrt(x.shape[2] * 2)

\* get_n_from_reduced_vectors
GetNFromReducedVectors(x) == CeilSqrt(x.shape[2] * 2)

\* position in the condensed vector of entry (i, j), i < j, of a d x d
\* matrix: the upper triangle in row-major order (1-based)
CondensedIndex(d, i, j) == d * (i - 1) - (i * (i - 1)) \div 2 + j - i

\* scipy's squareform on a vector: the symmetric zero-diagonal matrix, or the
\* ValueError 'Incompatible vector size' when 2*len is not d*(d-1); an empty
\* vector gives the 1 x 1 zero matrix
SquareformToMatrix(v) ==
    LET d == CeilSqrt(2 * Len(v))
    IN  IF Len(v) = 0 THEN [ok |-> TRUE, m |-> << <<0>> >>]
        ELSE IF d * (d - 1) # 2 * Len(v) THEN [ok |-> FALSE, m |-> <<>>]
        ELSE [ok |-> TRUE,
              m |-> [i \in 1..d |-> [j \in 1..d |->
                        IF i = j THEN 0
                        ELSE IF i < j THEN v[CondensedIndex(d, i, j)]
                        ELSE v[CondensedIndex(d, j, i)]]]]

\* scipy's squareform(m, checks=False) on a square matrix: its upper triangle
\* in row-major order; the empty vector for a matrix of side <= 1
SquareformToVector(m) ==
    LET d == Len(m)
    IN  IF d <= 1 THEN <<>>
        ELSE [k \in 1..((d * (d - 1)) \div 2) |->
                LET pr == CHOOSE q \in (1..d) \X (1..d) :
                              q[1] < q[2] /\ CondensedIndex(d, q[1], q[2]) = k
                IN  m[pr[1]][pr[2]]]

\* m[idx, :, :] = value, into an n x n slot: numpy broadcasts a 1 x 1 value
AssignMatrix(n, value) ==
    IF Len(value) = n THEN [ok |-> TRUE, m |-> value]
    ELSE IF Len(value) = 1
    THEN [ok |-> TRUE, m |-> [i \in 1..n |-> [j \in 1..n |-> value[1][1]]]]
    ELSE [ok |-> FALSE, m |-> <<>>]

Raised == [ok |-> FALSE, v |-> Stack2(0, 0, <<>>), n_rdm |-> 0, n_cond |-> 0]

\* faulty variant: every row of the result is converted from the first matrix
BatchToVectorsFirstOnly(x) ==
    IF x.ndim = 2
    THEN [ok |-> TRUE, v |-> x, n_rdm |-> x.shape[1],
          n_cond |-> GetNFromReducedVectors(x)]
    ELSE LET n_rdm == x.shape[1]
             n_cond == x.shape[2]
         IN  [ok |-> TRUE,
              v |-> Stack2(n_rdm, (n_cond * (n_cond - 1)) \div 2,
                           [idx \in 1..n_rdm |-> SquareformToVector(x.data[1])]),
              n_rdm |-> n_rdm, n_cond |-> n_cond]

\* batch_to_vectors
BatchToVectors(x) ==
    IF x.ndim = 2
    THEN [ok |-> TRUE, v |-> x, n_rdm |-> x.shape[1],
          n_cond |-> GetNFromReducedVectors(x)]
    ELSE LET n_rdm == x.shape[1]
             n_cond == x.shape[2]
         IN  [ok |-> TRUE,
              v |-> Stack2(n_rdm, (n_cond * (n_cond - 1)) \div 2,
                           [idx \in 1..n_rdm |-> SquareformToVector(x.data[idx])]),
              n_rdm |-> n_rdm, n_cond |-> n_cond]

\* faulty variant: a condensed stack is passed through like a matrix stack
BatchToMatricesPassThrough(x) ==
    [ok |-> TRUE, v |-> x, n_rdm |-> x.shape[1],
     n_cond |-> IF x.ndim = 2 THEN GetNFromReducedVectors(x) ELSE x.shape[2]]

\* batch_to_matrices
BatchToMatrices(x) ==
    IF x.ndim = 2
    THEN LET n_rdm == x.shape[1]
             n_cond == GetNFromReducedVectors(x)
             sq == [idx \in 1..n_rdm |-> SquareformToMatrix(x.data[idx])]
             as == [idx \in 1..n_rdm |->
                      IF sq[idx].ok THEN AssignMatrix(n_cond, sq[idx].m)
                      ELSE [ok |-> FALSE, m |-> <<>>]]
         IN  IF \E idx \in 1..n_rdm : ~as[idx].ok THEN Raised
             ELSE [ok |-> TRUE,
                   v |-> Stack3(n_rdm, n_cond, [idx \in 1..n_rdm |-> as[idx].m]),
                   n_rdm |-> n_rdm, n_cond |-> n_cond]
    ELSE [ok |-> TRUE, v |-> x, n_rdm |-> x.shape[1], n_cond |-> x.shape[2]]

\* --- the stacks handed to the helpers
MaxLen == (MaxCond * (MaxCond - 1)) \div 2 + 1

\* row r of a stack built from a base vector: the base shifted by r - 1
ShiftRow(base, r) == [j \in DOMAIN base |-> (base[j] + r - 1) % (MaxDis + 1)]

CondensedStack(k, base) == Stack2(k, Len(base), [r \in 1..k |-> ShiftRow(base, r)])

\* condensed stacks of every row length 0..MaxLen, triangular or not
CondensedInputs ==
    {CondensedStack(k, base) :
        k \in 0..MaxRdm, base \in UNION {[1..L -> 0..MaxDis] : L \in 0..MaxLen}}

\* an n x n matrix from its upper triangle; symmetric with zero diagonal when
\* sym and zd are set
MatrixOf(n, upper, sym, zd) ==
    [i \in 1..n |-> [j \in 1..n |->
        IF i = j THEN (IF zd THEN 0 ELSE 1)
        ELSE IF i < j THEN upper[CondensedIndex(n, i, j)]
        ELSE IF sym THEN upper[CondensedIndex(n, j, i)]
        ELSE (upper[CondensedIndex(n, j, i)] + 1) % (MaxDis + 1)]]

MatrixStack(k, n, base, sym, zd) ==
    Stack3(k, n, [r \in 1..k |-> MatrixOf(n, ShiftRow(base, r), sym, zd)])

\* matrix stacks of side 0..MaxCond
MatrixInputs ==
    UNION {{MatrixStack(k, n, base, sym, zd) :
                k \in 0..MaxRdm, base \in [1..((n * (n - 1)) \div 2) -> 0..MaxDis],
                sym \in BOOLEAN, zd \in BOOLEAN} : n \in 0..MaxCond}

CvInit ==
    /\ cv_pc = "ready"
    /\ \E x \in CondensedInputs \cup MatrixInputs : cv_hist = <<x>>
    /\ cv_ops = <<>>
    /\ cv_ret = <<>>

CvIdle ==
    /\ cv_pc = "idle"
    /\ cv_hist = <<>>
    /\ cv_ops = <<>>
    /\ cv_ret = <<>>

\* one call of a helper on the current stack: its return value is recorded,
\* or the error it raises
CvApply(op, res) ==
    /\ cv_ops' = Append(cv_ops, op)
    /\ IF res.ok
       THEN /\ cv_hist' = Append(cv_hist, res.v)
            /\ cv_ret' = Append(cv_ret, [n_rdm |-> res.n_rdm, n_cond |-> res.n_cond])
            /\ cv_pc' = "ready"
       ELSE /\ cv_pc' = "raised"
            /\ UNCHANGED <<cv_hist, cv_ret>>

\* v, n_rdm, n_cond = batch_to_vectors(x)
CvToVectors ==
    /\ cv_pc = "ready"
    /\ Len(cv_ops) < MaxOps
    /\ CvApply("to_vectors", BatchToVectors(cv_hist[Len(cv_hist)]))

\* m, n_rdm, n_cond = batch_to_matrices(x)
CvToMatrices ==
    /\ cv_pc = "ready"
    /\ Len(cv_ops) < MaxOps
    /\ CvApply("to_matrices", BatchToMatrices(cv_hist[Len(cv_hist)]))

\* ------------------------------------------------- get_searchlight_rdms
\* Centers are numbered 0 .. n_centers-1 as in the code; center i_c is element
\* i_c + 1 of sl_centers, sl_neighbors, rdm and n_writes.

\* np.linspace(0, n, num, dtype=int): cut point k is k * step, step = n/(num-1),
\* computed in floating point and truncated.  Where k*n/(num-1) is not an
\* integer the truncation is the exact floor; where it is an integer the
\* floating-point product may fall just below it and truncate to one less
\* (n = 1004: 25 * 10.04 = 250.99999999999997 -> 250), so both values are
\* possible there.  The first point is 0 and the last is set to n.
Linspace(n, num) ==
    LET exact(k) == ((k - 1) * n) \div (num - 1)
        inexact == {k \in 2..(num - 1) : ((k - 1) * n) % (num - 1) = 0 /\ exact(k) > 0}
    IN  {[k \in 1..num |-> IF k \in low THEN exact(k) - 1 ELSE exact(k)] :
            low \in SUBSET inexact}

\* np.split(np.arange(n), cuts): the sections [0, cuts[1]), [cuts[1], cuts[2]),
\* ..., [cuts[last], n)
Split(n, cuts) ==
    [j \in 1..(Len(cuts) + 1) |->
        LET lo == IF j = 1 THEN 0 ELSE cuts[j - 1]
            hi == IF j = Len(cuts) + 1 THEN n ELSE cuts[j]
        IN  [k \in 1..(hi - lo) |-> lo + k - 1]]

\* lines 128-130: the cut points are linspace(...)[1:-1]; the chunkings the
\* floating-point cut points can give
ChunkedCenter(n) ==
    {Split(n, SubSeq(points, 2, NChunks)) : points \in Linspace(n, NChunks + 1)}

\* Dataset(data_2d[:, voxels], descriptors, obs_descriptors, channel_descriptors)
Dataset(voxels, center) ==
    [measurements |-> [k \in DOMAIN voxels |-> data_2d[voxels[k]]],
     center |-> center,
     events |-> events,
     voxels |-> voxels]

\* len(np.unique(events))
NConds == Cardinality(Range(events))

\* one row of calc_rdm(...).dissimilarities: the condensed RDM of one dataset,
\* a vector of n_conds*(n_conds-1)/2 values determined by the dataset's
\* measurements and its grouping by events (the values stay uninterpreted)
CalcRdmRow(ds) ==
    [width |-> (Cardinality(Range(ds.events)) * (Cardinality(Range(ds.events)) - 1)) \div 2,
     of |-> <<ds.measurements, ds.events>>]

\* calc_rdm(center_data, method, descriptor='events').dissimilarities:
\* one row per dataset, in the order of the list
CalcRdm(center_data) == [k \in DOMAIN center_data |-> CalcRdmRow(center_data[k])]

\* a row of np.zeros((n_centers, n_conds * (n_conds - 1) // 2))
ZeroRow == [width |-> (NConds * (NConds - 1)) \div 2, of |-> "zeros"]

\* faulty variant: the neighbours are looked up by the position inside the chunk
ChunkDatasetsLocal(chunk) ==
    [k \in DOMAIN chunk |-> Dataset(sl_neighbors[k], sl_centers[chunk[k] + 1])]

\* lines 136-147: center_data of one chunk
ChunkDatasets(chunk) ==
    [k \in DOMAIN chunk |-> Dataset(sl_neighbors[chunk[k] + 1], sl_centers[chunk[k] + 1])]

\* lines 153-164: center_data of the single pass
AllDatasets == [k \in DOMAIN sl_centers |-> Dataset(sl_neighbors[k], k - 1)]

SlSizes == (1..MaxSmall) \cup ((ChunkThreshold - 1)..(ChunkThreshold + MaxOver))

SlInit ==
    /\ sl_pc = "start"
    /\ \E n \in SlSizes : \E stride \in 1..MaxStride :
          /\ sl_centers = [k \in 1..n |-> stride * k]
          /\ sl_neighbors = [k \in 1..n |-> <<stride * k - 1, stride * k, stride * k + 1>>]
          /\ data_2d = [ch \in 0..(stride * n + 1) |-> (ch \div stride) % 3]
    /\ events \in {<<0, 0, 1, 1>>, <<0, 1, 2, 0>>}
    /\ chunked_center = <<>>
    /\ i_chunk = 1
    /\ rdm = <<>>
    /\ n_writes = <<>>
    /\ sl_rdms = [set |-> FALSE]

SlIdle ==
    /\ sl_pc = "idle"
    /\ data_2d = <<>>
    /\ sl_centers = <<>>
    /\ sl_neighbors = <<>>
    /\ events = <<>>
    /\ chunked_center = <<>>
    /\ i_chunk = 1
    /\ rdm = <<>>
    /\ n_writes = <<>>
    /\ sl_rdms = [set |-> FALSE]

\* lines 125-134: more than 1000 centers: cut the chunks, preallocate rdm
SlAllocate ==
    /\ sl_pc = "start"
    /\ Len(sl_centers) > ChunkThreshold
    /\ chunked_center' \in ChunkedCenter(Len(sl_centers))
    /\ i_chunk' = 1
    /\ rdm' = [k \in DOMAIN sl_centers |-> ZeroRow]
    /\ n_writes' = [k \in DOMAIN sl_centers |-> 0]
    /\ sl_pc' = "chunks"
    /\ UNCHANGED <<data_2d, sl_centers, sl_neighbors, events, sl_rdms>>

\* lines 135-151: one chunk: its datasets, their RDMs, written to the rows
\* rdm[chunk, :]
SlChunk ==
    /\ sl_pc = "chunks"
    /\ i_chunk <= Len(chunked_center)
    /\ LET chunk == chunked_center[i_chunk]
           rdm_corr == CalcRdm(ChunkDatasets(chunk))
           at(row) == CHOOSE k \in DOMAIN chunk : chunk[k] + 1 = row
       IN  /\ rdm' = [row \in DOMAIN rdm |->
                        IF row - 1 \in Range(chunk) THEN rdm_corr[at(row)] ELSE rdm[row]]
           /\ n_writes' = [row \in DOMAIN n_writes |->
                        IF row - 1 \in Range(chunk) THEN n_writes[row] + 1
                        ELSE n_writes[row]]
    /\ i_chunk' = i_chunk + 1
    /\ UNCHANGED <<sl_pc, data_2d, sl_centers, sl_neighbors, events,
                   chunked_center, sl_rdms>>

\* lines 153-167: at most 1000 centers: all datasets, one calc_rdm
SlSinglePass ==
    /\ sl_pc = "start"
    /\ Len(sl_centers) <= ChunkThreshold
    /\ rdm' = CalcRdm(AllDatasets)
    /\ n_writes' = [k \in DOMAIN sl_centers |-> 1]
    /\ sl_pc' = "computed"
    /\ UNCHANGED <<data_2d, sl_centers, sl_neighbors, events, chunked_center,
                   i_chunk, sl_rdms>>

\* lines 169-173: the RDMs object that is returned
SlFinish ==
    /\ \/ sl_pc = "computed"
       \/ sl_pc = "chunks" /\ i_chunk > Len(chunked_center)
    /\ sl_rdms' = [set |-> TRUE, dissimilarities |-> rdm, voxel_index |-> sl_centers]
    /\ sl_pc' = "done"
    /\ UNCHANGED <<data_2d, sl_centers, sl_neighbors, events, chunked_center,
                   i_chunk, rdm, n_writes>>

\* ------------------------------------------ evaluate_models_searchlight
\* Parallel(n_jobs)(delayed(eval_function)(models, x, ...) for x in sl_rdm):
\* the rows are taken from the collection in order, at most n_jobs
\* evaluations run at a time, they complete in any order, the result of the
\* k-th task goes to slot k of the result list, and an exception raised by a
\* task is raised again in the caller.

\* what eval_function returns for one row (uninterpreted)
EvalFunction(x) == <<"evaluation", x>>

\* iterating sl_rdm yields its one-row sub-collections in row order
RowOf(k) == sl_rdm[k]

Pending == "pending"
NoReturn == [returned |-> FALSE]

EvInit ==
    /\ ev_pc = "running"
    /\ \E n \in 0..MaxRows :
          /\ sl_rdm \in {[k \in 1..n |-> "rdm_a"],
                         [k \in 1..n |-> IF k % 2 = 1 THEN "rdm_a" ELSE "rdm_b"]}
          /\ ev_fails \in SUBSET (1..n)
          /\ results = [k \in 1..n |-> Pending]
          /\ ev_calls = [k \in 1..n |-> 0]
    /\ n_jobs \in 1..MaxJobs
    /\ ev_next = 1
    /\ ev_running = {}
    /\ ev_order = <<>>
    /\ ev_ret = NoReturn

EvIdle ==
    /\ ev_pc = "idle"
    /\ sl_rdm = <<>>
    /\ n_jobs = 1
    /\ ev_fails = {}
    /\ ev_next = 1
    /\ ev_running = {}
    /\ results = <<>>
    /\ ev_calls = <<>>
    /\ ev_order = <<>>
    /\ ev_ret = NoReturn

\* the next row is taken and its evaluation starts on a free worker
EvDispatch ==
    /\ ev_pc = "running"
    /\ ev_next <= Len(sl_rdm)
    /\ Cardinality(ev_running) < n_jobs
    /\ ev_running' = ev_running \cup {ev_next}
    /\ ev_calls' = [ev_calls EXCEPT ![ev_next] = @ + 1]
    /\ ev_next' = ev_next + 1
    /\ UNCHANGED <<ev_pc, sl_rdm, n_jobs, ev_fails, results, ev_order, ev_ret>>

\* faulty variant: results are collected in the order the evaluations complete
EvCompleteInCompletionOrder ==
    /\ ev_pc = "running"
    /\ \E k \in ev_running :
          /\ ev_running' = ev_running \ {k}
          /\ ev_order' = Append(ev_order, k)
          /\ IF k \in ev_fails
             THEN ev_pc' = "raised" /\ UNCHANGED results
             ELSE /\ results' = [results EXCEPT ![Len(ev_order) + 1] = EvalFunction(RowOf(k))]
                  /\ UNCHANGED ev_pc
    /\ UNCHANGED <<sl_rdm, n_jobs, ev_fails, ev_next, ev_calls, ev_ret>>

\* faulty variant: a failed evaluation is kept as an empty result
EvCompleteSwallowing ==
    /\ ev_pc = "running"
    /\ \E k \in ev_running :
          /\ ev_running' = ev_running \ {k}
          /\ ev_order' = Append(ev_order, k)
          /\ results' = [results EXCEPT ![k] =
                            IF k \in ev_fails THEN "None" ELSE EvalFunction(RowOf(k))]
          /\ UNCHANGED ev_pc
    /\ UNCHANGED <<sl_rdm, n_jobs, ev_fails, ev_next, ev_calls, ev_ret>>

\* one running evaluation ends: its result is stored in the slot of its row,
\* or its exception ends the whole call
EvComplete ==
    /\ ev_pc = "running"
    /\ \E k \in ev_running :
          /\ ev_running' = ev_running \ {k}
          /\ ev_order' = Append(ev_order, k)
          /\ IF k \in ev_fails
             THEN ev_pc' = "raised" /\ UNCHANGED results
             ELSE /\ results' = [results EXCEPT ![k] = EvalFunction(RowOf(k))]
                  /\ UNCHANGED ev_pc
    /\ UNCHANGED <<sl_rdm, n_jobs, ev_fails, ev_next, ev_calls, ev_ret>>

\* line 198: every evaluation has completed: return results
EvReturn ==
    /\ ev_pc = "running"
    /\ ev_next > Len(sl_rdm)
    /\ ev_running = {}
    /\ ev_ret' = [returned |-> TRUE, value |-> results]
    /\ ev_pc' = "done"
    /\ UNCHANGED <<sl_rdm, n_jobs, ev_fails, ev_next, ev_running, results,
                   ev_calls, ev_order>>

\* ------------------------------------------------------- specifications
NbNext ==
    \/ NbPrefilter /\ UNCHANGED <<vsVars, cvVars, slVars, evVars>>
    \/ NbDistance /\ UNCHANGED <<vsVars, cvVars, slVars, evVars>>

InitNeighbors == NbInit /\ VsIdle /\ CvIdle /\ SlIdle /\ EvIdle

SpecNeighbors == InitNeighbors /\ [][NbNext]_vars

VsNext ==
    \/ VsLoopStep /\ UNCHANGED <<nbVars, cvVars, slVars, evVars>>
    \/ VsFinish /\ UNCHANGED <<nbVars, cvVars, slVars, evVars>>

InitVolume == VsInit /\ NbIdle /\ CvIdle /\ SlIdle /\ EvIdle

SpecVolume == InitVolume /\ [][VsNext]_vars

CvNext ==
    \/ CvToVectors /\ UNCHANGED <<nbVars, vsVars, slVars, evVars>>
    \/ CvToMatrices /\ UNCHANGED <<nbVars, vsVars, slVars, evVars>>

InitConvert == CvInit /\ NbIdle /\ VsIdle /\ SlIdle /\ EvIdle

SpecConvert == InitConvert /\ [][CvNext]_vars

SlNext ==
    \/ SlAllocate /\ UNCHANGED <<nbVars, vsVars, cvVars, evVars>>
    \/ SlChunk /\ UNCHANGED <<nbVars, vsVars, cvVars, evVars>>
    \/ SlSinglePass /\ UNCHANGED <<nbVars, vsVars, cvVars, evVars>>
    \/ SlFinish /\ UNCHANGED <<nbVars, vsVars, cvVars, evVars>>

InitRdms == SlInit /\ NbIdle /\ VsIdle /\ CvIdle /\ EvIdle

SpecRdms == InitRdms /\ [][SlNext]_vars

EvNext ==
    \/ EvDispatch /\ UNCHANGED <<nbVars, vsVars, cvVars, slVars>>
    \/ EvComplete /\ UNCHANGED <<nbVars, vsVars, cvVars, slVars>>
    \/ EvReturn /\ UNCHANGED <<nbVars, vsVars, cvVars, slVars>>

InitEval == EvInit /\ NbIdle /\ VsIdle /\ CvIdle /\ SlIdle

SpecEval == InitEval /\ [][EvNext]_vars

\* ------------------------------------------------ properties: neighbours
\* the grid coordinates strictly closer than r to c, stated from the geometry
Sphere(shape, c, r) == {p \in GridSet(shape) : Dist2(p, c) < r * r}

RECURSIVE SumOver(_, _)
SumOver(S, f) ==
    IF S = {} THEN 0
    ELSE LET x == CHOOSE y \in S : TRUE IN f[x] + SumOver(S \ {x}, f)

\* C1: _get_searchlight_neighbors returns exactly the grid coordinates whose
\* Euclidean distance to the center is strictly below the radius, each once:
\* none fails the distance test, none lies outside the grid, and the per-axis
\* bounding-box prefilter drops no coordinate that passes the distance test.
C1_NeighborsExact ==
    /\ nb_pc = "done" =>
        /\ Range(nb_result) = Sphere(nb_shape, nb_center, nb_radius)
        /\ Cardinality(Range(nb_result)) = Len(nb_result)
    /\ nb_pc \in {"prefiltered", "done"} =>
        \A p \in Sphere(nb_shape, nb_center, nb_radius) :
            p[1] \in Range(nb_x) /\ p[2] \in Range(nb_y) /\ p[3] \in Range(nb_z)

\* a finished call where the box holds a coordinate the distance test removes,
\* and where the sphere around the center reaches beyond the grid
C1_Witness ==
    /\ nb_pc = "done"
    /\ Len(nb_result) > 1
    /\ \E p \in Range(Meshgrid(nb_x, nb_y, nb_z)) : p \notin Range(nb_result)
    /\ \E d \in 1..(nb_radius - 1) : nb_center[1] - d < 0

\* ------------------------------------------------ properties: enumerator
VsFinished == vs_pc \in {"done", "raised", "assert_failed"}

DenseCube ==
    /\ mask_shape[1] = mask_shape[2] /\ mask_shape[2] = mask_shape[3]
    /\ mask_shape[1] >= 2 * radius + 1
    /\ \A p \in GridSet(mask_shape) : mask[p] = 1
    /\ threshold = ThrDen

\* the centers at distance >= radius from every face of the cube
Interior ==
    {p \in GridSet(mask_shape) :
        \A a \in 1..3 : radius <= p[a] /\ p[a] <= mask_shape[a] - 1 - radius}

\* C2 (as claimed): on a fully dense cube with threshold 1.0 exactly the
\* interior centers are accepted, the centers within r of the boundary are
\* rejected (for the 5x5x5 cube and radius 2: only (2,2,2)).
C2_OnlyInteriorAccepted ==
    (VsFinished /\ DenseCube) => Range(good_centers) = Interior

\* C2 (amended): on a fully dense cube with threshold 1.0 every center is
\* accepted, the interior ones and the ones near the boundary alike, because
\* a neighbourhood only holds coordinates of the grid; the call returns the
\* flat indices 0 .. side^3 - 1 in order.
C2_DenseCubeAllAccepted ==
    (VsFinished /\ DenseCube) =>
        /\ vs_pc = "done"
        /\ Interior \subseteq Range(good_centers)
        /\ Range(good_centers) = GridSet(mask_shape)
        /\ out_centers = Arange(mask_shape[1] * mask_shape[2] * mask_shape[3])

\* the 5x5x5 cube of ones with radius 2, finished, a corner center accepted
C2_Witness ==
    /\ vs_pc = "done"
    /\ DenseCube
    /\ mask_shape = <<5, 5, 5>> /\ radius = 2
    /\ Interior = {<<2, 2, 2>>}
    /\ <<0, 0, 0>> \in Range(good_centers)
    /\ Len(out_centers) = 125

\* the acceptance test of a candidate p read as a mean of mask values
MeanTest(p) ==
    LET nb == Sphere(mask_shape, p, radius)
    IN  SumOver(nb, mask) * ThrDen >= threshold * Cardinality(nb)

\* the acceptance test read as the fraction of nonzero neighbours
FractionTest(p) ==
    LET nb == Sphere(mask_shape, p, radius)
    IN  Cardinality({q \in nb : mask[q] # 0}) * ThrDen >= threshold * Cardinality(nb)

FlatIndex(p) == p[1] * mask_shape[2] * mask_shape[3] + p[2] * mask_shape[3] + p[3]

C4_RejectionIsNoError ==
    VsFinished => (vs_pc = "done" /\ Len(out_centers) = Len(good_centers))

\* ------------------------------------------------ properties: conversion
\* the stack call t was applied to, and whether call t raised
CvArg(t) == cv_hist[t]
CvRaisedAt(t) == cv_pc = "raised" /\ t = Len(cv_ops)
CvReturnedAt(t) == t \in DOMAIN cv_ret

Triangular(L) == \E n \in 0..(L + 1) : n * (n - 1) = 2 * L

ValidCondensed(x) == x.ndim = 2 /\ Triangular(x.shape[2])

SymZeroDiag(x) ==
    /\ x.ndim = 3
    /\ \A r \in 1..x.shape[1] : \A i \in 1..x.shape[2] :
          /\ x.data[r][i][i] = 0
          /\ \A j \in 1..x.shape[2] : x.data[r][i][j] = x.data[r][j][i]

\* calls t and t+1 are op1 then op2, and both returned
CvPair(t, op1, op2) ==
    /\ t + 1 \in DOMAIN cv_ops
    /\ cv_ops[t] = op1 /\ cv_ops[t + 1] = op2
    /\ CvReturnedAt(t + 1)

\* C5 (as claimed): to_vectors(to_matrices(v)) = v for every valid condensed
\* stack, and to_matrices(to_vectors(m)) = m for EVERY stack of symmetric
\* zero-diagonal n x n matrices.
C5_RoundTripEveryN ==
    \A t \in DOMAIN cv_ops :
        /\ (ValidCondensed(CvArg(t)) /\ cv_ops[t] = "to_matrices") =>
              /\ ~CvRaisedAt(t)
              /\ CvPair(t, "to_matrices", "to_vectors") => cv_hist[t + 2] = CvArg(t)
        /\ (SymZeroDiag(CvArg(t)) /\ CvPair(t, "to_vectors", "to_matrices")) =>
              cv_hist[t + 2] = CvArg(t)

\* C5 (amended): to_vectors(to_matrices(v)) = v for every valid condensed
\* stack v, whose matrix form is symmetric with zero diagonal, and
\* to_matrices(to_vectors(m)) = m for every stack of symmetric zero-diagonal
\* n x n matrices with n # 1; a stack of 1 x 1 matrices comes back as a stack
\* of 0 x 0 matrices with n_cond = 0.
C5_RoundTrip ==
    \A t \in DOMAIN cv_ops :
        /\ (ValidCondensed(CvArg(t)) /\ cv_ops[t] = "to_matrices") =>
              /\ ~CvRaisedAt(t)
              /\ SymZeroDiag(cv_hist[t + 1])
              /\ cv_hist[t + 1].shape[1] = CvArg(t).shape[1]
              /\ CvPair(t, "to_matrices", "to_vectors") => cv_hist[t + 2] = CvArg(t)
        /\ (SymZeroDiag(CvArg(t)) /\ CvPair(t, "to_vectors", "to_matrices")) =>
              IF CvArg(t).shape[2] # 1
              THEN cv_hist[t + 2] = CvArg(t)
              ELSE /\ cv_hist[t + 2].shape = <<CvArg(t).shape[1], 0, 0>>
                   /\ cv_ret[t + 1].n_cond = 0

\* both round trips done on stacks of two different RDMs of three conditions
C5_Witness ==
    /\ Len(cv_hist) = 3
    /\ cv_hist[1].shape[1] = 2
    /\ cv_hist[1].data[1] # cv_hist[1].data[2]
    /\ \/ /\ CvPair(1, "to_matrices", "to_vectors")
          /\ cv_hist[1].ndim = 2 /\ cv_hist[1].shape[2] = 3
          /\ cv_hist[2].ndim = 3 /\ cv_hist[3] = cv_hist[1]
          /\ cv_hist[1].data[1][1] # cv_hist[1].data[1][3]
       \/ /\ CvPair(1, "to_vectors", "to_matrices")
          /\ cv_hist[1].ndim = 3 /\ cv_hist[1].shape[2] = 3
          /\ cv_hist[2].ndim = 2 /\ cv_hist[3] = cv_hist[1]

\* d is sqrt(m) rounded to the nearest integer
IsRoundOfSqrt(d, m) ==
    /\ d >= 0
    /\ (2 * d - 1 <= 0 \/ (2 * d - 1) * (2 * d - 1) < 4 * m)
    /\ 4 * m < (2 * d + 1) * (2 * d + 1)

\* d is sqrt(m) rounded up to an integer
IsCeilOfSqrt(d, m) ==
    /\ d >= 0
    /\ d * d >= m
    /\ (d > 0 => (d - 1) * (d - 1) < m)

\* C6 (as claimed): for condensed input of row length L the returned n_cond
\* is round(sqrt(2 L)).
C6_NCondIsRounded ==
    \A t \in DOMAIN cv_ret :
        CvArg(t).ndim = 2 => IsRoundOfSqrt(cv_ret[t].n_cond, 2 * CvArg(t).shape[2])

\* C6 (amended): for condensed input of row length L the returned n_cond is
\* ceil(sqrt(2 L)), and this recovery is exact: for L = n(n-1)/2 with n >= 2
\* it is n (for L = 0, the length of both n = 0 and n = 1, it is 0).
C6_NCondIsCeil ==
    \A t \in DOMAIN cv_ret :
        CvArg(t).ndim = 2 =>
            LET L == CvArg(t).shape[2]
                d == cv_ret[t].n_cond
            IN  /\ IsCeilOfSqrt(d, 2 * L)
                /\ \A n \in 2..(L + 1) : (n * (n - 1) = 2 * L) => d = n
                /\ L = 0 => d = 0
                /\ cv_ret[t].n_rdm = CvArg(t).shape[1]

\* both helpers have returned n_cond = 3 for a condensed stack of row length 3
C6_Witness ==
    /\ Len(cv_ret) >= 2
    /\ cv_ops[1] = "to_vectors" /\ cv_ops[2] = "to_matrices"
    /\ cv_hist[1].ndim = 2 /\ cv_hist[1].shape = <<2, 3>>
    /\ cv_ret[1].n_cond = 3 /\ cv_ret[2].n_cond = 3

Malformed(x) == x.ndim = 2 /\ ~Triangular(x.shape[2])

\* C7 (as claimed): on a condensed stack of malformed row length both
\* batch_to_vectors and batch_to_matrices raise.
C7_BothRaise ==
    \A t \in DOMAIN cv_ops : Malformed(CvArg(t)) => CvRaisedAt(t)

\* C7 (amended): on a condensed stack of malformed row length
\* batch_to_matrices raises when the stack holds at least one RDM (an empty
\* stack is returned as an empty matrix stack), while batch_to_vectors does
\* not raise: it returns the stack unchanged with n_cond = ceil(sqrt(2 L)).
C7_OnlyToMatricesRaises ==
    \A t \in DOMAIN cv_ops :
        Malformed(CvArg(t)) =>
            /\ (cv_ops[t] = "to_matrices" /\ CvArg(t).shape[1] >= 1) => CvRaisedAt(t)
            /\ (cv_ops[t] = "to_matrices" /\ CvArg(t).shape[1] = 0) =>
                  /\ CvReturnedAt(t)
                  /\ cv_hist[t + 1].ndim = 3 /\ cv_hist[t + 1].shape[1] = 0
            /\ cv_ops[t] = "to_vectors" =>
                  /\ CvReturnedAt(t)
                  /\ cv_hist[t + 1] = CvArg(t)
                  /\ IsCeilOfSqrt(cv_ret[t].n_cond, 2 * CvArg(t).shape[2])

\* batch_to_vectors has returned a malformed stack of row length 2 and
\* batch_to_matrices has then raised on it
C7_Witness ==
    /\ cv_pc = "raised"
    /\ cv_ops = <<"to_vectors", "to_matrices">>
    /\ Malformed(cv_hist[1]) /\ cv_hist[1].shape = <<2, 2>>
    /\ Len(cv_hist) = 2 /\ cv_hist[2] = cv_hist[1]

\* ------------------------------------------------ properties: RDM builder
\* what the single pass of lines 153-167 computes for the same inputs
SinglePassRows ==
    [k \in DOMAIN sl_centers |->
        CalcRdmRow([measurements |-> [j \in DOMAIN sl_neighbors[k] |->
                                         data_2d[sl_neighbors[k][j]]],
                    center |-> k - 1,
                    events |-> events,
                    voxels |-> sl_neighbors[k]])]

RECURSIVE Flatten(_)
Flatten(ss) == IF ss = <<>> THEN <<>> ELSE Head(ss) \o Flatten(Tail(ss))

\* C8: with more than 1000 centers the 100 chunks are contiguous, ascending
\* and cover 0 .. n_centers-1 exactly once; every row of the preallocated
\* array is written exactly once, row i with the RDM of center i; the result
\* equals, row for row, what the single pass computes, and row i's
\* voxel_index is centers[i].
C8_ChunkingKeepsRows ==
    /\ sl_pc \in {"chunks", "done"} /\ Len(sl_centers) > ChunkThreshold =>
        /\ Len(chunked_center) = NChunks
        /\ Flatten(chunked_center) = [k \in DOMAIN sl_centers |-> k - 1]
        /\ \A row \in DOMAIN rdm :
              /\ n_writes[row] <= 1
              /\ n_writes[row] = 1 => rdm[row] = SinglePassRows[row]
    /\ sl_pc = "done" =>
        /\ \A row \in DOMAIN sl_centers : n_writes[row] = 1
        /\ sl_rdms.dissimilarities = SinglePassRows
        /\ sl_rdms.voxel_index = sl_centers

\* a finished chunked run over 1004 centers in which a cut point fell below
\* its exact value (chunk 26 starts at 250, not 251): chunks of 10 and of 11
\* centers, rows that differ from each other and none left at zero
C8_Witness ==
    /\ sl_pc = "done"
    /\ Len(sl_centers) = ChunkThreshold + 4
    /\ i_chunk = NChunks + 1
    /\ chunked_center[26][1] = 250
    /\ \E j \in DOMAIN chunked_center : Len(chunked_center[j]) = 10
    /\ \E j \in DOMAIN chunked_center : Len(chunked_center[j]) = 11
    /\ sl_rdms.dissimilarities[1] # sl_rdms.dissimilarities[2]
    /\ \A row \in DOMAIN rdm : rdm[row].of # "zeros"

\* ------------------------------------------------ properties: evaluator
\* C9: the evaluation function is invoked exactly once per row and the
\* returned sequence has one element per row, element i being the result for
\* row i, whatever n_jobs is and in whatever order the evaluations completed
\* (so n_jobs = 1 and n_jobs = 4 return the same sequence).
C9_ResultsAlignedWithRows ==
    /\ \A k \in DOMAIN ev_calls : ev_calls[k] <= 1
    /\ ev_pc = "done" =>
        /\ ev_ret.returned
        /\ Len(ev_ret.value) = Len(sl_rdm)
        /\ \A k \in DOMAIN sl_rdm :
              /\ ev_ret.value[k] = <<"evaluation", sl_rdm[k]>>
              /\ ev_calls[k] = 1

\* four rows evaluated by four workers that completed in reverse order
C9_Witness ==
    /\ ev_pc = "done"
    /\ n_jobs = 4
    /\ Len(sl_rdm) = 4 /\ sl_rdm[1] # sl_rdm[2]
    /\ ev_order = <<4, 3, 2, 1>>
    /\ ev_ret.value[1] # ev_ret.value[2]

\* C10: if the evaluation function raises for a row, the call fails as a
\* whole: it never returns a (partial) result sequence, the exception reaches
\* the caller however many other evaluations have completed, and until then
\* the call keeps making progress.
C10_FailureFailsBatch ==
    /\ ev_fails # {} => (ev_pc # "done" /\ ev_ret = [returned |-> FALSE])
    /\ ev_pc = "raised" =>
        /\ ev_ret = [returned |-> FALSE]
        /\ \E k \in ev_fails : ev_calls[k] = 1 /\ ev_order[Len(ev_order)] = k
    /\ (ev_pc = "running" /\ ev_fails # {}) =>
        \/ ev_running # {}
        \/ ev_next <= Len(sl_rdm) /\ Cardinality(ev_running) < n_jobs

\* the call has raised after two other evaluations had completed and while
\* another one was still running
C10_Witness ==
    /\ ev_pc = "raised"
    /\ n_jobs >= 2
    /\ Len(ev_order) = 3
    /\ \E k \in DOMAIN results : results[k] # "pending"
    /\ ev_running # {}
    /\ ev_ret = [returned |-> FALSE]

====
